---- MODULE Spec2Model ----
(***************************************************************************)
(* Model of src/agen.py: the Agent Builder chat.  A driver                 *)
(* (run_chat_agent) reads the requirements, then invokes a LangGraph       *)
(* state graph parse -> draft -> present -> confirm -> (update -> present  *)
(* -> confirm)* -> finalize.  The nodes keep their data in a global        *)
(* AgentMemory and call the Gemini text generator.                         *)
(*                                                                         *)
(* Strings are modelled as tuples of one-character strings so that         *)
(* lower(), startswith() and == are computed character by character.       *)
(*                                                                         *)
(* Framework semantics used by the code (langgraph):                       *)
(*  - StateGraph(dict) has no annotated keys, so the graph state is one    *)
(*    root value: the dict a node returns becomes the state the next node  *)
(*    (and the conditional edge) receives, and the value invoke returns.   *)
(*  - invoke() is called without a config, so the default recursion limit  *)
(*    applies to every traversal; reaching it raises GraphRecursionError.  *)
(***************************************************************************)
EXTENDS Integers, Sequences, FiniteSets, TLC

VARIABLES pc,          \* position of run_chat_agent
          node,        \* next graph node of the running traversal
          steps,       \* graph steps executed in the running traversal
          state,       \* the graph state / the driver's `state` dict
          memory,      \* the global AgentMemory
          calls,       \* TextGenerator calls made so far, in order
          out,         \* what the driver has printed at its end
          error,       \* the exception that aborted the run, if any
          invocations, \* number of agent_graph.invoke calls
          ran,         \* number of executions started, per node
          finalWrites, \* number of writes of memory["final_json"]
          userReq,     \* the reply to the requirements prompt
          lastReply,   \* the reply to the latest feedback prompt
          nonConf,     \* feedback replies so far that did not confirm
          conf,        \* feedback replies so far that confirmed
          exitSeen,    \* "exit" was typed at a feedback prompt
          shown,       \* the draft printed by the latest present step
          lastCall,    \* the latest TextGenerator call: prompt and result
          op           \* the latest AgentMemory operation (memory exercise)

vars == <<pc, node, steps, state, memory, calls, out, error, invocations,
          ran, finalWrites, userReq, lastReply, nonConf, conf, exitSeen,
          shown, lastCall, op>>

----------------------------------------------------------------------------
(* Bounds and constants *)

MaxInvocations == 3

RecursionLimit == 25

Nodes == {"parse", "draft", "present", "confirm", "update", "finalize"}

None == <<"None">>

EmptyDict == << >>

----------------------------------------------------------------------------
(* Input domains *)

yes == <<"y", "e", "s">>

exit == <<"e", "x", "i", "t">>

Feedbacks ==
  { << >>,
    <<"y", "e", "s">>,
    <<"Y", "e", "s", " ", "p">>,
    <<"Y", "E", "S">>,
    <<"y", "e">>,
    <<"n", "o", " ", "y", "e", "s">>,
    <<"e", "x", "i", "t">>,
    <<"E", "x", "i", "T">>,
    <<"a", "d", "d">> }

Reqs ==
  { << >>,
    <<"b", "o", "t">>,
    <<"e", "x", "i", "t">>,
    <<"E", "X", "i", "t">>,
    <<"e", "x", "i", "t", " ">> }

Texts == { << >>, <<"A">>, <<"B">> }

----------------------------------------------------------------------------
(* str.lower, str.startswith *)

LowerChar(c) ==
  CASE c = "Y" -> "y"
    [] c = "E" -> "e"
    [] c = "S" -> "s"
    [] c = "X" -> "x"
    [] c = "I" -> "i"
    [] c = "T" -> "t"
    [] OTHER -> c

Lower(s) == [i \in 1..Len(s) |-> LowerChar(s[i])]

StartsWith(s, p) == Len(s) >= Len(p) /\ SubSeq(s, 1, Len(p)) = p

Truthy(v) == v # None /\ v # << >>

----------------------------------------------------------------------------
(* AgentMemory *)

\* insert only: a key already stored keeps its value
rememberKeepFirst(m, key, value) == m @@ (key :> value)

remember(m, key, value) == (key :> value) @@ m

recall(m, key, default) == IF key \in DOMAIN m THEN m[key] ELSE default

Get(d, key, default) == IF key \in DOMAIN d THEN d[key] ELSE default

----------------------------------------------------------------------------
(* Prompt builders: the prompt is the kind of request and the values the   *)
(* f-string embeds; gemini_call returns a text or raises                   *)

Failed == <<"Failed">>

NoCall == [kind |-> "none"]

NoOp == [name |-> "none"]

generate_draft_with_gemini(parsed) == [kind |-> "draft", parsed |-> parsed]

update_workflow_with_gemini(draft, change_request) ==
  [kind |-> "update", draft |-> draft, change |-> change_request]

finalize_json_with_gemini(draft) == [kind |-> "finalize", draft |-> draft]

\* the call made with prompt and its outcome
Returned(prompt, text) == [prompt |-> prompt, result |-> text]

----------------------------------------------------------------------------
(* The graph *)

\* the returned keys merged into the previous state
ApplyUpdateMerge(st, upd) == upd @@ st

\* StateGraph(dict): a node's return value replaces the root state.
ApplyUpdate(st, upd) == upd

\* the branches of the router swapped
confirm_router_Swapped(st) == IF Get(st, "confirmed", FALSE) = TRUE THEN "update" ELSE "finalize"

\* the router never leaves the cycle
confirm_router_AlwaysUpdate(st) == "update"

confirm_router(st) == IF Get(st, "confirmed", FALSE) = TRUE THEN "finalize" ELSE "update"

\* update wired to confirm, skipping present
NextNodeSkipPresent(n, st) ==
  CASE n = "parse"    -> "draft"
    [] n = "draft"    -> "present"
    [] n = "present"  -> "confirm"
    [] n = "confirm"  -> confirm_router(st)
    [] n = "update"   -> "confirm"
    [] n = "finalize" -> "END"

\* update wired back to draft
NextNodeRedraft(n, st) ==
  CASE n = "parse"    -> "draft"
    [] n = "draft"    -> "present"
    [] n = "present"  -> "confirm"
    [] n = "confirm"  -> confirm_router(st)
    [] n = "update"   -> "draft"
    [] n = "finalize" -> "END"

NextNode(n, st) ==
  CASE n = "parse"    -> "draft"
    [] n = "draft"    -> "present"
    [] n = "present"  -> "confirm"
    [] n = "confirm"  -> confirm_router(st)
    [] n = "update"   -> "present"
    [] n = "finalize" -> "END"

\* the test without lower()
IsConfirmationCaseSensitive(feedback) == StartsWith(feedback, yes)

\* confirm_node's test of the feedback
IsConfirmation(feedback) == StartsWith(Lower(feedback), yes)

\* the test without lower()
IsExitCaseSensitive(s) == s = exit

\* run_chat_agent's test of a reply
IsExit(s) == Lower(s) = exit

----------------------------------------------------------------------------
(* Reply classes, letter by letter, used to record the reply history *)

YesReplies ==
  { f \in Feedbacks : /\ Len(f) >= 3
                      /\ f[1] \in {"y", "Y"}
                      /\ f[2] \in {"e", "E"}
                      /\ f[3] \in {"s", "S"} }

ExitReplies ==
  { f \in Feedbacks \cup Reqs : /\ Len(f) = 4
                                /\ f[1] \in {"e", "E"}
                                /\ f[2] \in {"x", "X"}
                                /\ f[3] \in {"i", "I"}
                                /\ f[4] \in {"t", "T"} }

----------------------------------------------------------------------------
(* Node functions: what each node writes to memory and what it returns *)

\* parse storing the parsed form only
parse_requirements_memory_ParsedOnly(m, st) ==
  remember(m, "parsed", [goal |-> st["requirements"]])

parse_requirements_memory(m, st) ==
  remember(remember(m, "requirements", st["requirements"]),
           "parsed", [goal |-> st["requirements"]])

parse_requirements_return(st) == "parsed" :> [goal |-> st["requirements"]]

\* confirm storing the verdict only, never the feedback
confirm_node_memory_VerdictOnly(m, st) ==
  LET feedback == Get(st, "user_feedback", << >>)
  IN  remember(m, "confirmed", IsConfirmation(feedback))

\* confirm storing the change request under the draft's key
confirm_node_memory_WrongKey(m, st) ==
  LET feedback == Get(st, "user_feedback", << >>)
  IN  IF IsConfirmation(feedback)
        THEN remember(m, "confirmed", TRUE)
        ELSE remember(remember(m, "confirmed", FALSE), "draft", feedback)

confirm_node_memory(m, st) ==
  LET feedback == Get(st, "user_feedback", << >>)
  IN  IF IsConfirmation(feedback)
        THEN remember(m, "confirmed", TRUE)
        ELSE remember(remember(m, "confirmed", FALSE), "user_feedback", feedback)

confirm_node_return(st) ==
  LET feedback == Get(st, "user_feedback", << >>)
  IN  IF IsConfirmation(feedback)
        THEN "confirmed" :> TRUE
        ELSE ("confirmed" :> FALSE) @@ ("user_feedback" :> feedback)

----------------------------------------------------------------------------
(* Initial state: the module has been imported, run_chat_agent starts *)

Init ==
  /\ pc = "prompt"
  /\ node = "none"
  /\ steps = 0
  /\ state = EmptyDict
  /\ memory = EmptyDict
  /\ calls = << >>
  /\ out = "none"
  /\ error = "none"
  /\ invocations = 0
  /\ ran = [n \in Nodes |-> 0]
  /\ finalWrites = 0
  /\ userReq = None
  /\ lastReply = None
  /\ nonConf = 0
  /\ conf = 0
  /\ exitSeen = FALSE
  /\ shown = None
  /\ lastCall = NoCall
  /\ op = NoOp

\* the reply history is left alone
SameReplies == UNCHANGED <<userReq, lastReply, nonConf, conf, exitSeen>>

\* no TextGenerator call and nothing printed by present
SameCalls == UNCHANGED <<shown, lastCall, op>>

\* the exception caught and recorded, the run going on
RaiseSwallowed(e) ==
  /\ pc' = pc
  /\ error' = e

\* an exception propagates out of invoke and run_chat_agent
Raise(e) ==
  /\ pc' = "aborted"
  /\ error' = e

\* a node may start: the traversal has steps left
CanRun(n) ==
  /\ pc = "invoking"
  /\ node = n
  /\ steps < RecursionLimit

\* the node finished and returned upd
Advance(n, upd) ==
  /\ state' = ApplyUpdate(state, upd)
  /\ node' = NextNode(n, ApplyUpdate(state, upd))
  /\ steps' = steps + 1
  /\ UNCHANGED <<pc, error>>

----------------------------------------------------------------------------
(* The driver *)

\* lines 145-151: the requirements prompt
Start ==
  /\ pc = "prompt"
  /\ \E r \in Reqs :
       /\ userReq' = r
       /\ IF IsExit(r)
            THEN /\ pc' = "done"
                 /\ state' = state
            ELSE /\ pc' = "loop"
                 /\ state' = ("requirements" :> r)
  /\ UNCHANGED <<node, steps, memory, calls, out, error, invocations, ran,
                 finalWrites, lastReply, nonConf, conf, exitSeen>>
  /\ SameCalls

\* line 155: agent_graph.invoke(state) starts a traversal at the entry point
Invoke ==
  /\ pc = "loop"
  /\ invocations < MaxInvocations
  /\ pc' = "invoking"
  /\ node' = "parse"
  /\ steps' = 0
  /\ invocations' = invocations + 1
  /\ UNCHANGED <<state, memory, calls, out, error, ran, finalWrites>>
  /\ SameReplies
  /\ SameCalls

\* lines 155-166: invoke has returned; the rest of the loop body
DriverCheck ==
  /\ pc = "invoking"
  /\ node = "END"
  /\ node' = "none"
  /\ IF Truthy(recall(memory, "final_json", None))
       THEN /\ out' = "artifact"
            /\ pc' = "done"
       ELSE IF IsExit(Get(state, "user_feedback", << >>))
              THEN /\ out' = "goodbye"
                   /\ pc' = "done"
              ELSE /\ out' = out
                   /\ pc' = "loop"
  /\ UNCHANGED <<steps, state, memory, calls, error, invocations, ran,
                 finalWrites>>
  /\ SameReplies
  /\ SameCalls

\* the traversal needs another step and has none left: GraphRecursionError
RecursionAbort ==
  /\ pc = "invoking"
  /\ node \in Nodes
  /\ steps >= RecursionLimit
  /\ Raise("recursion")
  /\ UNCHANGED <<node, steps, state, memory, calls, out, invocations, ran,
                 finalWrites>>
  /\ SameReplies
  /\ SameCalls

----------------------------------------------------------------------------
(* The nodes *)

\* lines 72-77; state["requirements"] raises KeyError when the key is absent
Parse ==
  /\ CanRun("parse")
  /\ ran' = [ran EXCEPT !["parse"] = @ + 1]
  /\ IF "requirements" \in DOMAIN state
       THEN /\ memory' = parse_requirements_memory(memory, state)
            /\ Advance("parse", parse_requirements_return(state))
       ELSE /\ Raise("keyerror")
            /\ UNCHANGED <<node, steps, state, memory>>
  /\ UNCHANGED <<calls, out, invocations, finalWrites>>
  /\ SameReplies
  /\ SameCalls

\* lines 79-83
Draft ==
  /\ CanRun("draft")
  /\ ran' = [ran EXCEPT !["draft"] = @ + 1]
  /\ calls' = Append(calls, "draft")
  /\ LET prompt == generate_draft_with_gemini(recall(memory, "parsed", None))
     IN  \/ \E workflow \in Texts :
               /\ lastCall' = Returned(prompt, workflow)
               /\ memory' = remember(memory, "draft", workflow)
               /\ Advance("draft", "draft" :> workflow)
         \/ /\ lastCall' = Returned(prompt, Failed)
            /\ Raise("generator")
            /\ UNCHANGED <<node, steps, state, memory>>
  /\ UNCHANGED <<out, invocations, finalWrites, shown, op>>
  /\ SameReplies

\* lines 85-90
Present ==
  /\ CanRun("present")
  /\ ran' = [ran EXCEPT !["present"] = @ + 1]
  /\ shown' = recall(memory, "draft", None)
  /\ \E user_feedback \in Feedbacks :
       /\ Advance("present", "user_feedback" :> user_feedback)
       /\ lastReply' = user_feedback
       /\ exitSeen' = (exitSeen \/ user_feedback \in ExitReplies)
       /\ IF user_feedback \in YesReplies
            THEN conf' = conf + 1 /\ nonConf' = nonConf
            ELSE nonConf' = nonConf + 1 /\ conf' = conf
  /\ UNCHANGED <<memory, calls, out, invocations, finalWrites, userReq,
                 lastCall, op>>

\* lines 92-100 and the conditional edge, lines 132-135
Confirm ==
  /\ CanRun("confirm")
  /\ ran' = [ran EXCEPT !["confirm"] = @ + 1]
  /\ memory' = confirm_node_memory(memory, state)
  /\ Advance("confirm", confirm_node_return(state))
  /\ UNCHANGED <<calls, out, invocations, finalWrites>>
  /\ SameReplies
  /\ SameCalls

\* lines 102-107
Update ==
  /\ CanRun("update")
  /\ ran' = [ran EXCEPT !["update"] = @ + 1]
  /\ calls' = Append(calls, "update")
  /\ LET prompt == update_workflow_with_gemini(
                       recall(memory, "draft", None),
                       recall(memory, "user_feedback", None))
     IN  \/ \E updated \in Texts :
               /\ lastCall' = Returned(prompt, updated)
               /\ memory' = remember(memory, "draft", updated)
               /\ Advance("update", "draft" :> updated)
         \/ /\ lastCall' = Returned(prompt, Failed)
            /\ Raise("generator")
            /\ UNCHANGED <<node, steps, state, memory>>
  /\ UNCHANGED <<out, invocations, finalWrites, shown, op>>
  /\ SameReplies

\* lines 109-113
Finalize ==
  /\ CanRun("finalize")
  /\ ran' = [ran EXCEPT !["finalize"] = @ + 1]
  /\ calls' = Append(calls, "finalize")
  /\ LET prompt == finalize_json_with_gemini(recall(memory, "draft", None))
     IN  \/ \E final_json \in Texts :
               /\ lastCall' = Returned(prompt, final_json)
               /\ memory' = remember(memory, "final_json", final_json)
               /\ finalWrites' = finalWrites + 1
               /\ Advance("finalize", "final_json" :> final_json)
         \/ /\ lastCall' = Returned(prompt, Failed)
            /\ Raise("generator")
            /\ UNCHANGED <<node, steps, state, memory, finalWrites>>
  /\ UNCHANGED <<out, invocations, shown, op>>
  /\ SameReplies

Next ==
  \/ Start
  \/ Invoke
  \/ DriverCheck
  \/ RecursionAbort
  \/ Parse
  \/ Draft
  \/ Present
  \/ Confirm
  \/ Update
  \/ Finalize

Spec == Init /\ [][Next]_vars

\* the program runs on: a step that can be taken is taken
FairSpec == Spec /\ WF_vars(Next)

----------------------------------------------------------------------------
(* Vocabulary of the properties *)

Stopped == pc \in {"done", "aborted"}

\* the run got past the requirements prompt
Started == pc # "prompt" /\ userReq \notin ExitReplies

\* no TextGenerator call has failed
GeneratorOk == error # "generator"

\* the Confirm step is being taken
ConfirmStep == pc = "invoking" /\ node = "confirm" /\ node' # "confirm"

GraphEdges ==
  { <<"parse", "draft">>, <<"draft", "present">>, <<"present", "confirm">>,
    <<"confirm", "finalize">>, <<"confirm", "update">>,
    <<"update", "present">> }

\* k update calls
Updates(k) == [i \in 1..k |-> "update"]

\* update steps that fit into one traversal: the n-th one is step 3n + 2
MaxUpdates == (RecursionLimit - 2) \div 3

\* non-confirming replies after which finalize (step 3k + 5) still fits
MaxRounds == (RecursionLimit - 5) \div 3

----------------------------------------------------------------------------
\* C1: the confirm step sets confirmed to TRUE, in the returned state and in
\* memory, exactly when the reply starts with y/Y, e/E, s/S; for any other
\* reply (the empty one too) it sets confirmed to FALSE in both and stores
\* the reply unmodified as memory's user_feedback.
C1_ConfirmContract ==
  [][ConfirmStep =>
       /\ "confirmed" \in DOMAIN state' /\ "confirmed" \in DOMAIN memory'
       /\ IF lastReply \in YesReplies
            THEN state'["confirmed"] = TRUE /\ memory'["confirmed"] = TRUE
            ELSE /\ state'["confirmed"] = FALSE
                 /\ memory'["confirmed"] = FALSE
                 /\ "user_feedback" \in DOMAIN memory'
                 /\ memory'["user_feedback"] = lastReply]_vars

\* a change request was stored, then "Yes p" confirmed
C1_Witness ==
  /\ node = "finalize"
  /\ lastReply = <<"Y", "e", "s", " ", "p">>
  /\ memory["confirmed"] = TRUE
  /\ state["confirmed"] = TRUE
  /\ "user_feedback" \in DOMAIN memory
  /\ memory["user_feedback"] = <<"n", "o", " ", "y", "e", "s">>

C3_ExitStopsRun ==
  /\ [][exitSeen => /\ calls' = calls
                    /\ ran'["update"] = ran["update"]
                    /\ ran'["finalize"] = ran["finalize"]
                    /\ "final_json" \notin DOMAIN memory']_vars
  /\ []((exitSeen /\ Stopped) => out = "goodbye")

\* C4: a run of k non-confirming replies and then one confirming reply, all
\* TextGenerator calls returning, has made one draft call, k update calls
\* and one finalize call, in that order, when it ends, and it ends printing
\* the final artifact.
C4_CallSequence ==
  (conf = 1 /\ GeneratorOk /\ Stopped) =>
     /\ calls = <<"draft">> \o Updates(nonConf) \o <<"finalize">>
     /\ pc = "done"
     /\ out = "artifact"

\* C5: once final_json is stored in memory the driver does not invoke the
\* graph again, no step runs and no TextGenerator call or prompt happens.
C5_FinalJsonTerminates ==
  [][("final_json" \in DOMAIN memory) =>
       /\ invocations' = invocations
       /\ ran' = ran
       /\ calls' = calls
       /\ nonConf' = nonConf /\ conf' = conf]_vars

\* C6: a run that ended printing the final artifact ran finalize once and
\* wrote final_json once.
C6_OneArtifact ==
  out = "artifact" => (ran["finalize"] = 1 /\ finalWrites = 1)

\* the artifact was printed after a revision round
C6_Witness ==
  /\ out = "artifact"
  /\ pc = "done"
  /\ nonConf >= 1
  /\ Truthy(memory["final_json"])

\* C7: when the reply to the requirements prompt is e/E x/X i/I t/T, the
\* driver is done at once: no invoke, no step, no TextGenerator call, empty
\* memory, nothing printed.
C7_ExitAtStart ==
  userReq \in ExitReplies =>
     /\ pc = "done"
     /\ invocations = 0
     /\ node = "none"
     /\ \A n \in Nodes : ran[n] = 0
     /\ calls = << >>
     /\ DOMAIN memory = {}
     /\ out = "none"

\* "EXit" was typed at the requirements prompt
C7_Witness ==
  /\ userReq = <<"E", "X", "i", "t">>
  /\ pc = "done"

\* C8: inside a traversal the next node changes only along the six edges of
\* the graph; invoke enters at parse; the traversal returns (END) only from
\* finalize.
C8_Transitions ==
  /\ [][(node \in Nodes /\ node' \in Nodes /\ node' # node)
          => <<node, node'>> \in GraphEdges]_vars
  /\ [][(pc = "loop" /\ pc' = "invoking") => node' = "parse"]_vars
  /\ [][(node' = "END" /\ node # "END") => node = "finalize"]_vars
  /\ [][(node \in Nodes /\ node' \notin Nodes) => node' = "END"]_vars

\* a traversal that went through the update edge has returned
C8_Witness ==
  /\ node = "END"
  /\ ran["update"] >= 1
  /\ ran["finalize"] = 1

----------------------------------------------------------------------------
\* a TextGenerator call fails in this step
GeneratorFails == error # "generator" /\ error' = "generator"

ParseStep == pc = "invoking" /\ node = "parse" /\ node' = "draft"

\* C12: for a non-empty requirements string r (the reply to the
\* requirements prompt) the parse step returns parsed = [goal |-> r], and
\* memory then holds requirements = r and parsed = [goal |-> r].
C12_ParseContract ==
  [][(ParseStep /\ Len(userReq) > 0) =>
       /\ "parsed" \in DOMAIN state'
       /\ state'["parsed"] = [goal |-> userReq]
       /\ {"requirements", "parsed"} \subseteq DOMAIN memory'
       /\ memory'["requirements"] = userReq
       /\ memory'["parsed"] = [goal |-> userReq]]_vars

\* parse has run on "exit " (a trailing blank: not the exit token)
C12_Witness ==
  /\ node = "draft"
  /\ userReq = <<"e", "x", "i", "t", " ">>
  /\ memory["parsed"] = [goal |-> <<"e", "x", "i", "t", " ">>]
  /\ memory["requirements"] = <<"e", "x", "i", "t", " ">>

----------------------------------------------------------------------------
(* AgentMemory on its own: remember and recall applied in any order to the *)
(* store created at line 25                                                *)

MemKeys == {"draft", "user_feedback", "final_json"}

MemValues == { << >>, <<"A">>, None }

MemDefaults == { None, <<"A">>, <<"d">> }

\* the keys remembered so far
Written(o) == IF o.name = "none" THEN {} ELSE o.written

\* lines 19-20
MemRemember ==
  /\ \E k \in MemKeys, v \in MemValues :
       /\ memory' = remember(memory, k, v)
       /\ op' = [name |-> "remember", key |-> k, value |-> v, result |-> None,
                 before |-> memory, written |-> Written(op) \cup {k}]
  /\ UNCHANGED <<pc, node, steps, state, calls, out, error, invocations, ran,
                 finalWrites, shown, lastCall>>
  /\ SameReplies

\* lines 22-23
MemRecall ==
  /\ \E k \in MemKeys, default \in MemDefaults :
       op' = [name |-> "recall", key |-> k, value |-> default,
              result |-> recall(memory, k, default),
              before |-> memory, written |-> Written(op)]
  /\ memory' = memory
  /\ UNCHANGED <<pc, node, steps, state, calls, out, error, invocations, ran,
                 finalWrites, shown, lastCall>>
  /\ SameReplies

MemNext ==
  \/ MemRemember
  \/ MemRecall

MemSpec == Init /\ [][MemNext]_vars

\* C13: right after remember(k, v), recall(k, d) is v for every default d
\* (also when k held another value before) and every other key is stored
\* or absent as before with its value; recall of a key never remembered
\* returns the default; recall leaves the store as it was.
C13_MemoryContract ==
  /\ op.name = "remember" =>
       /\ \A d \in MemDefaults : recall(memory, op.key, d) = op.value
       /\ \A k \in MemKeys \ {op.key} :
            /\ k \in DOMAIN memory <=> k \in DOMAIN op.before
            /\ k \in DOMAIN op.before => memory[k] = op.before[k]
  /\ op.name = "recall" =>
       /\ memory = op.before
       /\ op.key \notin op.written => op.result = op.value
       /\ op.key \in op.written =>
            /\ op.key \in DOMAIN memory
            /\ op.result = memory[op.key]

\* draft is remembered a second time, with another value, while
\* final_json is stored and user_feedback was never remembered
C13_Witness ==
  /\ op.name = "remember"
  /\ op.key = "draft"
  /\ op.value = <<"A">>
  /\ "draft" \in DOMAIN op.before
  /\ op.before["draft"] = << >>
  /\ "final_json" \in DOMAIN memory
  /\ "user_feedback" \notin DOMAIN memory

----------------------------------------------------------------------------
\* the Update / Finalize step is being taken (its call made)
UpdateStep == ran'["update"] = ran["update"] + 1

FinalizeStep == ran'["finalize"] = ran["finalize"] + 1

\* memory's draft, None when there is none
DraftOf(m) == IF "draft" \in DOMAIN m THEN m["draft"] ELSE None

\* C14: every update step calls TextGenerator with the reply given at the
\* present step just before it as the change request and with the draft
\* that present step printed; when the call returns, memory's draft is the
\* returned text.
C14_UpdateUsesLatestReply ==
  [][UpdateStep =>
       /\ lastCall'.prompt.kind = "update"
       /\ lastCall'.prompt.change = lastReply
       /\ lastCall'.prompt.draft = shown
       /\ lastCall'.result # Failed =>
            /\ "draft" \in DOMAIN memory'
            /\ memory'["draft"] = lastCall'.result]_vars

\* the second update ran with the second change request, not the first,
\* on the draft the first update had produced
C14_Witness ==
  /\ ran["update"] = 2
  /\ node = "present"
  /\ lastReply = <<"e", "x", "i", "t">>
  /\ lastCall.prompt.kind = "update"
  /\ lastCall.prompt.change = <<"e", "x", "i", "t">>
  /\ lastCall.prompt.draft = <<"A">>
  /\ lastCall.result = <<"B">>
  /\ memory["draft"] = <<"B">>

\* C15: every finalize step converts the draft printed by the latest
\* present step, which is memory's draft at that moment; memory's draft
\* changes only in a draft or an update step.
C15_FinalizeUsesShownDraft ==
  /\ [][FinalizeStep =>
          /\ lastCall'.prompt.kind = "finalize"
          /\ lastCall'.prompt.draft = shown
          /\ "draft" \in DOMAIN memory
          /\ memory["draft"] = shown]_vars
  /\ [][DraftOf(memory') # DraftOf(memory) =>
          (pc = "invoking" /\ node \in {"draft", "update"})]_vars

\* finalize has converted the revised draft, not the first one
C15_Witness ==
  /\ ran["finalize"] = 1
  /\ ran["update"] = 1
  /\ node = "END"
  /\ shown = <<"B">>
  /\ lastCall.prompt.kind = "finalize"
  /\ lastCall.prompt.draft = <<"B">>
  /\ calls = <<"draft", "update", "finalize">>

----------------------------------------------------------------------------
\* C16: after every step each key that both the graph state and memory hold
\* has the same value in both, and the state the driver passes to a further
\* invoke still holds the keys returned by the earlier steps.
C16_StateMirrorsMemory ==
  /\ \A k \in DOMAIN state \cap DOMAIN memory : state[k] = memory[k]
  /\ (pc = "loop" /\ invocations >= 1) =>
        {"requirements", "parsed", "draft"} \subseteq DOMAIN state

====
